---- MODULE Spec2Model ----
(***************************************************************************)
(* Request-parameter binding of kapetacom/sdk-go-rest-server:              *)
(*   - the Struct Binder  FillStruct / setFieldValue   (request/request.go)*)
(*   - the Scalar Accessor GetBody / GetPathParams / GetQueryParam /       *)
(*     GetHeaderParams / convertToType                 (unnamed/part_000)  *)
(*                                                                         *)
(* Strings are sequences of one-byte atoms ("a", ",", "1", ...).  Two      *)
(* atoms stand for bytes outside ASCII: "xFF" is a byte that is not valid  *)
(* UTF-8 and "uFFFD" is the Unicode replacement rune.                      *)
(***************************************************************************)
EXTENDS Integers, Sequences, FiniteSets, TLC

(***************************************************************************)
(* package strings                                                         *)
(***************************************************************************)
Digits == {"0", "1", "2", "3", "4", "5", "6", "7", "8", "9"}

DigitVal(c) ==
  CASE c = "0" -> 0 [] c = "1" -> 1 [] c = "2" -> 2 [] c = "3" -> 3
    [] c = "4" -> 4 [] c = "5" -> 5 [] c = "6" -> 6 [] c = "7" -> 7
    [] c = "8" -> 8 [] c = "9" -> 9

DigitChar(d) ==
  CASE d = 0 -> "0" [] d = 1 -> "1" [] d = 2 -> "2" [] d = 3 -> "3"
    [] d = 4 -> "4" [] d = 5 -> "5" [] d = 6 -> "6" [] d = 7 -> "7"
    [] d = 8 -> "8" [] d = 9 -> "9"

UpperToLower ==
  [A |-> "a", B |-> "b", C |-> "c", D |-> "d", E |-> "e", F |-> "f",
   G |-> "g", H |-> "h", I |-> "i", J |-> "j", K |-> "k", L |-> "l",
   M |-> "m", N |-> "n", O |-> "o", P |-> "p", Q |-> "q", R |-> "r",
   S |-> "s", T |-> "t", U |-> "u", V |-> "v", W |-> "w", X |-> "x",
   Y |-> "y", Z |-> "z"]

LowerChar(c) == IF c \in DOMAIN UpperToLower THEN UpperToLower[c] ELSE c

\* strings.ToLower
ToLower(s) == [i \in 1..Len(s) |-> LowerChar(s[i])]

\* strings.Index for a one-byte separator; 0 when sep does not occur
IndexOf(s, sep) ==
  IF \E i \in 1..Len(s) : s[i] = sep
  THEN CHOOSE i \in 1..Len(s) : s[i] = sep /\ \A j \in 1..(i - 1) : s[j] # sep
  ELSE 0

\* strings.Split(s, sep) for a one-byte separator: one piece more than there
\* are separators, so Split("", ",") is [""]
RECURSIVE Split(_, _)
Split(s, sep) ==
  LET i == IndexOf(s, sep)
  IN IF i = 0 THEN <<s>>
     ELSE <<SubSeq(s, 1, i - 1)>> \o Split(SubSeq(s, i + 1, Len(s)), sep)

\* strings.SplitN(s, sep, 2)
SplitN2(s, sep) ==
  LET i == IndexOf(s, sep)
  IN IF i = 0 THEN <<s>>
     ELSE <<SubSeq(s, 1, i - 1), SubSeq(s, i + 1, Len(s))>>

\* strings.Join(elems, sep)
RECURSIVE Join(_, _)
Join(elems, sep) ==
  IF Len(elems) = 0 THEN <<>>
  ELSE IF Len(elems) = 1 THEN elems[1]
  ELSE elems[1] \o <<sep>> \o Join(Tail(elems), sep)

(***************************************************************************)
(* package strconv                                                         *)
(***************************************************************************)
ErrSyntax == "invalid syntax"
ErrRange == "value out of range"

ParseBoolTrue ==
  {<<"1">>, <<"t">>, <<"T">>, <<"T", "R", "U", "E">>, <<"t", "r", "u", "e">>,
   <<"T", "r", "u", "e">>}

ParseBoolFalse ==
  {<<"0">>, <<"f">>, <<"F">>, <<"F", "A", "L", "S", "E">>,
   <<"f", "a", "l", "s", "e">>, <<"F", "a", "l", "s", "e">>}

\* a ParseBool that folds case before matching
ParseBoolFoldCase(s) ==
  IF ToLower(s) \in ParseBoolTrue THEN [ok |-> TRUE, val |-> TRUE, err |-> "none"]
  ELSE IF ToLower(s) \in ParseBoolFalse THEN [ok |-> TRUE, val |-> FALSE, err |-> "none"]
  ELSE [ok |-> FALSE, val |-> FALSE, err |-> ErrSyntax]

\* strconv.ParseBool
ParseBool(s) ==
  IF s \in ParseBoolTrue THEN [ok |-> TRUE, val |-> TRUE, err |-> "none"]
  ELSE IF s \in ParseBoolFalse THEN [ok |-> TRUE, val |-> FALSE, err |-> "none"]
  ELSE [ok |-> FALSE, val |-> FALSE, err |-> ErrSyntax]

AllDigits(s) == Len(s) > 0 /\ \A i \in 1..Len(s) : s[i] \in Digits

RECURSIVE StripZeros(_)
StripZeros(d) ==
  IF Len(d) > 1 /\ d[1] = "0" THEN StripZeros(Tail(d)) ELSE d

RECURSIVE DecVal(_)
DecVal(d) ==
  IF Len(d) = 0 THEN 0
  ELSE 10 * DecVal(SubSeq(d, 1, Len(d) - 1)) + DigitVal(d[Len(d)])

\* digit strings of equal length: a > b
DigitsGreater(a, b) ==
  \E i \in 1..Len(a) :
    /\ DigitVal(a[i]) > DigitVal(b[i])
    /\ \A j \in 1..(i - 1) : a[j] = b[j]

\* 2^63 - 1 and 2^63, 2^64 - 1 as digit strings
MaxInt64Digits ==
  <<"9", "2", "2", "3", "3", "7", "2", "0", "3", "6", "8", "5", "4", "7",
    "7", "5", "8", "0", "7">>
MinInt64Digits ==
  <<"9", "2", "2", "3", "3", "7", "2", "0", "3", "6", "8", "5", "4", "7",
    "7", "5", "8", "0", "8">>
MaxUint64Digits ==
  <<"1", "8", "4", "4", "6", "7", "4", "4", "0", "7", "3", "7", "0", "9",
    "5", "5", "1", "6", "1", "5">>

\* the magnitude d (no leading zeros) exceeds the magnitude lim
Exceeds(d, lim) ==
  \/ Len(d) > Len(lim)
  \/ Len(d) = Len(lim) /\ DigitsGreater(d, lim)

\* strconv.ParseInt(s, 10, 64).  Values are computed for magnitudes that the
\* model checker's integers hold (below 2^31); the range test is done on the
\* digits, so it is exact for every length.
ParseInt(s) ==
  IF Len(s) = 0 THEN [ok |-> FALSE, val |-> 0, err |-> ErrSyntax]
  ELSE
    LET neg == s[1] = "-"
        body == IF s[1] \in {"+", "-"} THEN Tail(s) ELSE s
    IN IF ~AllDigits(body) THEN [ok |-> FALSE, val |-> 0, err |-> ErrSyntax]
       ELSE
         LET d == StripZeros(body)
         IN IF Exceeds(d, IF neg THEN MinInt64Digits ELSE MaxInt64Digits)
            THEN [ok |-> FALSE, val |-> 0, err |-> ErrRange]
            ELSE [ok |-> TRUE, val |-> IF neg THEN 0 - DecVal(d) ELSE DecVal(d),
                  err |-> "none"]

\* strconv.Atoi(s): ParseInt(s, 10, 0) on a 64-bit platform
Atoi(s) == ParseInt(s)

\* strconv.ParseUint(s, 10, 64): no sign is accepted
ParseUint(s) ==
  IF ~AllDigits(s) THEN [ok |-> FALSE, val |-> 0, err |-> ErrSyntax]
  ELSE
    LET d == StripZeros(s)
    IN IF Exceeds(d, MaxUint64Digits)
       THEN [ok |-> FALSE, val |-> 0, err |-> ErrRange]
       ELSE [ok |-> TRUE, val |-> DecVal(d), err |-> "none"]

\* a float64 as a normalised decimal mant * 10^exp (mant has no trailing zero),
\* exact for the short literals of the model; cls is "fin", "inf" or "nan"
FloatZero == [cls |-> "fin", neg |-> FALSE, mant |-> 0, exp |-> 0]

RECURSIVE NormFloat(_, _, _)
NormFloat(neg, m, e) ==
  IF m = 0 THEN FloatZero
  ELSE IF m % 10 = 0 THEN NormFloat(neg, m \div 10, e + 1)
  ELSE [cls |-> "fin", neg |-> neg, mant |-> m, exp |-> e]

\* largest decimal exponent of a float64 (1.79e308)
MaxFloatExp10 == 308

DigitsOrEmpty(s) == \A i \in 1..Len(s) : s[i] \in Digits

\* significant decimal digits the model keeps of a float64 (a float64 keeps
\* 17; the model checker's integers hold 9)
FloatDigits == 9

\* strconv.ParseFloat(s, 64) on decimal literals and the inf/nan words; hex
\* floats and '_' need the letter x or a base prefix, which no input has.
ParseFloat(s) ==
  LET bad == [ok |-> FALSE, val |-> FloatZero, err |-> ErrSyntax]
      signed == Len(s) > 0 /\ s[1] \in {"+", "-"}
      neg == Len(s) > 0 /\ s[1] = "-"
      u == IF signed THEN Tail(s) ELSE s
      lu == ToLower(u)
      epos == IndexOf(lu, "e")
      mpart == IF epos = 0 THEN u ELSE SubSeq(u, 1, epos - 1)
      ep == IF epos = 0 THEN <<>> ELSE SubSeq(u, epos + 1, Len(u))
      eneg == Len(ep) > 0 /\ ep[1] = "-"
      edig == IF Len(ep) > 0 /\ ep[1] \in {"+", "-"} THEN Tail(ep) ELSE ep
      dot == IndexOf(mpart, ".")
      ipart == IF dot = 0 THEN mpart ELSE SubSeq(mpart, 1, dot - 1)
      fpart == IF dot = 0 THEN <<>> ELSE SubSeq(mpart, dot + 1, Len(mpart))
  IN IF lu = <<"i", "n", "f">> \/ lu = <<"i", "n", "f", "i", "n", "i", "t", "y">>
     THEN [ok |-> TRUE, val |-> [cls |-> "inf", neg |-> neg, mant |-> 0, exp |-> 0],
           err |-> "none"]
     ELSE IF ~signed /\ lu = <<"n", "a", "n">>
     THEN [ok |-> TRUE, val |-> [cls |-> "nan", neg |-> FALSE, mant |-> 0, exp |-> 0],
           err |-> "none"]
     ELSE IF ~(DigitsOrEmpty(ipart) /\ DigitsOrEmpty(fpart)
               /\ Len(ipart) + Len(fpart) > 0)
     THEN bad
     ELSE IF epos # 0 /\ ~AllDigits(edig) THEN bad
     ELSE
       LET d == StripZeros(ipart \o fpart)
           cut == IF Len(d) > FloatDigits THEN Len(d) - FloatDigits ELSE 0
           m == DecVal(SubSeq(d, 1, Len(d) - cut))
           ev == IF epos = 0 THEN 0
                 ELSE IF eneg THEN 0 - DecVal(StripZeros(edig))
                 ELSE DecVal(StripZeros(edig))
           f == NormFloat(neg, m, ev - Len(fpart) + cut)
       IN IF f.mant # 0 /\ f.exp > MaxFloatExp10
          THEN [ok |-> FALSE, val |-> [cls |-> "inf", neg |-> neg, mant |-> 0, exp |-> 0],
                err |-> ErrRange]
          ELSE [ok |-> TRUE, val |-> f, err |-> "none"]

(***************************************************************************)
(* Type descriptors (reflect.Type) and values                              *)
(*   String  : a string          Bool : a BOOLEAN                          *)
(*   Int*    : an integer        Uint*: a natural                          *)
(*   Float64 : a float record    Slice: a sequence of element values       *)
(*   Map     : map[string]string as a set of <<key, value>>                *)
(*   Struct  : a nested struct, opaque                                     *)
(***************************************************************************)
TString == [kind |-> "String"]
TBool == [kind |-> "Bool"]
TInt == [kind |-> "Int"]
TInt8 == [kind |-> "Int8"]
TInt16 == [kind |-> "Int16"]
TInt32 == [kind |-> "Int32"]
TInt64 == [kind |-> "Int64"]
TUint8 == [kind |-> "Uint8"]
TFloat64 == [kind |-> "Float64"]
TMap == [kind |-> "Map"]
TStruct == [kind |-> "Struct"]
TSlice(elem) == [kind |-> "Slice", elem |-> elem]

IntKinds == {"Int", "Int8", "Int16", "Int32", "Int64"}
UintKinds == {"Uint", "Uint8", "Uint16", "Uint32", "Uint64"}

\* reflect.Type.Bits of an integer kind (int and uint are 64 bit wide)
Bits(kind) ==
  CASE kind \in {"Int8", "Uint8"} -> 8
    [] kind \in {"Int16", "Uint16"} -> 16
    [] kind \in {"Int32", "Uint32"} -> 32
    [] OTHER -> 64

Pow2(n) == IF n = 8 THEN 256 ELSE IF n = 16 THEN 65536 ELSE 0

\* the zero value of a type
Zero(T) ==
  CASE T.kind = "String" -> <<>>
    [] T.kind = "Bool" -> FALSE
    [] T.kind \in IntKinds \cup UintKinds -> 0
    [] T.kind = "Float64" -> FloatZero
    [] T.kind = "Slice" -> <<>>
    [] T.kind = "Map" -> {}
    [] OTHER -> "zero"

\* reflect.Value.SetInt keeps the low Bits(kind) bits of a 64-bit value, in
\* two's complement.  Every value of the model is below 2^31, so widths of
\* 32 and 64 bits keep it whole.
SetInt(kind, i) ==
  IF Bits(kind) >= 32 THEN i
  ELSE LET m == Pow2(Bits(kind))
           r == i % m
       IN IF r >= m \div 2 THEN r - m ELSE r

\* reflect.Value.SetUint keeps the low Bits(kind) bits
SetUint(kind, u) ==
  IF Bits(kind) >= 32 THEN u ELSE u % Pow2(Bits(kind))

\* reflect.Value.OverflowInt
OverflowInt(kind, i) ==
  /\ Bits(kind) < 32
  /\ (i >= Pow2(Bits(kind)) \div 2 \/ i < 0 - (Pow2(Bits(kind)) \div 2))

(***************************************************************************)
(* package encoding/json.  A JSON text is modelled by the value it denotes *)
(* (t is "string", "bool", "number" or "array"); encoding followed by      *)
(* decoding loses only what the encoder changes.                           *)
(***************************************************************************)
InvalidByte == "xFF"
ReplacementChar == "uFFFD"

\* the encoder writes strings coerced to valid UTF-8
CoerceUTF8(s) ==
  [i \in 1..Len(s) |-> IF s[i] = InvalidByte THEN ReplacementChar ELSE s[i]]

ErrUnmarshalType == "json: cannot unmarshal into Go value"
ErrJSONSyntax == "json: invalid JSON"
ErrUnsupportedValue == "json: unsupported value"

\* json.Marshal of a string, a []string, a bool, an int and a float64
MarshalString(s) == [ok |-> TRUE, json |-> [t |-> "string", s |-> CoerceUTF8(s)]]
MarshalStrings(x) ==
  [ok |-> TRUE,
   json |-> [t |-> "array", elems |-> [i \in 1..Len(x) |-> MarshalString(x[i]).json]]]
MarshalBool(b) == [ok |-> TRUE, json |-> [t |-> "bool", b |-> b]]
MarshalInt(n) == [ok |-> TRUE, json |-> [t |-> "number", isInt |-> TRUE, n |-> n]]
MarshalFloat(f) ==
  IF f.cls # "fin" THEN [ok |-> FALSE, json |-> [t |-> "none"]]
  ELSE [ok |-> TRUE, json |-> [t |-> "number", isInt |-> FALSE, f |-> f]]

Min(S) == CHOOSE x \in S : \A y \in S : x <= y

\* json.Unmarshal(text of j, target).  pre is the target's value before the
\* call.  A value of the wrong JSON type leaves its target as it was and is
\* remembered as the error, while decoding goes on: an array resizes the
\* slice to its own length whatever its elements do.  Slices are taken to
\* have no spare capacity, so an element past the old length starts zero.
RECURSIVE Unmarshal(_, _, _)
Unmarshal(j, T, pre) ==
  LET mismatch == [err |-> ErrUnmarshalType, val |-> pre]
  IN CASE j.t = "string" ->
            IF T.kind = "String" THEN [err |-> "none", val |-> j.s] ELSE mismatch
       [] j.t = "bool" ->
            IF T.kind = "Bool" THEN [err |-> "none", val |-> j.b] ELSE mismatch
       [] j.t = "number" ->
            IF T.kind \in IntKinds /\ j.isInt /\ ~OverflowInt(T.kind, j.n)
            THEN [err |-> "none", val |-> j.n]
            ELSE IF T.kind = "Float64" /\ ~j.isInt
            THEN [err |-> "none", val |-> j.f]
            ELSE mismatch
       [] j.t = "array" ->
            IF T.kind # "Slice" THEN mismatch
            ELSE
              LET n == Len(j.elems)
                  rs == [i \in 1..n |->
                           Unmarshal(j.elems[i], T.elem,
                                     IF i <= Len(pre) THEN pre[i] ELSE Zero(T.elem))]
                  bad == {i \in 1..n : rs[i].err # "none"}
              IN [err |-> IF bad = {} THEN "none" ELSE rs[Min(bad)].err,
                  val |-> [i \in 1..n |-> rs[i].val]]

Quote == "\""

\* The JSON text val read as a map[string]string: "object" with its pairs,
\* "null", or "error" (not JSON, or JSON of another shape).  Recognised
\* objects are {} and {"k":"v"} without escapes or white space; no input of
\* the model is an object of another form.
ParseObject(val) ==
  LET n == Len(val)
      inner == SubSeq(val, 2, n - 1)
      quotes == {i \in 1..Len(inner) : inner[i] = Quote}
      a == CHOOSE i \in quotes : i # 1 /\ \A q \in quotes \ {1} : i <= q
  IN IF val = <<"n", "u", "l", "l">> THEN [cls |-> "null", m |-> {}]
     ELSE IF n < 2 \/ val[1] # "{" \/ val[n] # "}" THEN [cls |-> "error", m |-> {}]
     ELSE IF inner = <<>> THEN [cls |-> "object", m |-> {}]
     ELSE IF /\ Cardinality(quotes) = 4
             /\ 1 \in quotes
             /\ Len(inner) \in quotes
             /\ a + 2 \in quotes
             /\ inner[a + 1] = ":"
             /\ \A i \in 1..Len(inner) : inner[i] # "\\"
     THEN [cls |-> "object",
           m |-> {<<CoerceUTF8(SubSeq(inner, 2, a - 1)),
                    CoerceUTF8(SubSeq(inner, a + 3, Len(inner) - 1))>>}]
     ELSE [cls |-> "error", m |-> {}]

(***************************************************************************)
(* Type Coercion of the Struct Binder: setFieldValue (request.go:95-143).  *)
(* The result is the error ("none" on success, "panic" when the call does  *)
(* not return) and the value the destination holds afterwards.             *)
(***************************************************************************)
ErrUnsupportedFieldType == "unsupported field type"
Panic == "panic"

\* lines 99-104 and 117-122: the parsed value assigned, or the parse error
\* with the field as it was
AssignParsed(r, pre) ==
  IF ~r.ok THEN [err |-> r.err, val |-> pre] ELSE [err |-> "none", val |-> r.val]

\* lines 105-110: SetInt keeps the low bits of the parsed int64
AssignInt(kind, r, pre) ==
  IF ~r.ok THEN [err |-> r.err, val |-> pre]
  ELSE [err |-> "none", val |-> SetInt(kind, r.val)]

\* lines 111-116
AssignUint(kind, r, pre) ==
  IF ~r.ok THEN [err |-> r.err, val |-> pre]
  ELSE [err |-> "none", val |-> SetUint(kind, r.val)]

\* lines 123-131: rs are the results of the elements, set in a fresh slice
\* that is assigned only when every element was set
AssignSlice(rs, pre) ==
  LET bad == {i \in 1..Len(rs) : rs[i].err # "none"}
  IN IF bad # {} THEN [err |-> rs[Min(bad)].err, val |-> pre]
     ELSE [err |-> "none", val |-> [i \in 1..Len(rs) |-> rs[i].val]]

\* lines 132-138: o is the text read by json.Unmarshal into the map
AssignMap(o, pre) ==
  IF o.cls = "error" THEN [err |-> ErrJSONSyntax, val |-> pre]
  ELSE IF o.cls = "null" THEN [err |-> Panic, val |-> pre]
  ELSE [err |-> "none", val |-> o.m]

RECURSIVE setFieldValue(_, _, _)
setFieldValue(T, pre, val) ==
  CASE T.kind = "String" -> [err |-> "none", val |-> val]
    [] T.kind = "Bool" -> AssignParsed(ParseBool(val), pre)
    [] T.kind \in IntKinds -> AssignInt(T.kind, ParseInt(val), pre)
    [] T.kind \in UintKinds -> AssignUint(T.kind, ParseUint(val), pre)
    [] T.kind = "Float64" -> AssignParsed(ParseFloat(val), pre)
    [] T.kind = "Slice" ->
         LET parts == Split(val, ",")
         IN AssignSlice([i \in 1..Len(parts) |->
                           setFieldValue(T.elem, Zero(T.elem), parts[i])], pre)
    [] T.kind = "Map" -> AssignMap(ParseObject(val), pre)
    [] OTHER -> [err |-> ErrUnsupportedFieldType, val |-> pre]

(***************************************************************************)
(* Type Coercion of the Scalar Accessor: convertToType (part_000:85-139)   *)
(***************************************************************************)
\* the switch of lines 92-130: the JSON text handed to json.Unmarshal, or the
\* error returned before it
NoJSON == [t |-> "none"]

\* lines 101-109
EncodeBool(x) ==
  IF ~x.ok THEN [err |-> x.err, json |-> NoJSON]
  ELSE [err |-> "none", json |-> MarshalBool(x.val).json]

\* lines 110-118: json.Marshal refuses a float that is not finite
EncodeFloat(x) ==
  IF ~x.ok THEN [err |-> x.err, json |-> NoJSON]
  ELSE IF ~MarshalFloat(x.val).ok THEN [err |-> ErrUnsupportedValue, json |-> NoJSON]
  ELSE [err |-> "none", json |-> MarshalFloat(x.val).json]

\* lines 119-127
EncodeInt(x) ==
  IF ~x.ok THEN [err |-> x.err, json |-> NoJSON]
  ELSE [err |-> "none", json |-> MarshalInt(x.val).json]

EncodeForTarget(T, val) ==
  CASE T.kind = "Map" -> [err |-> "none", json |-> MarshalString(val).json]
    [] T.kind = "Slice" ->
         [err |-> "none", json |-> MarshalStrings(Split(val, ",")).json]
    [] T.kind = "String" -> [err |-> "none", json |-> MarshalString(val).json]
    [] T.kind = "Bool" -> EncodeBool(ParseBool(val))
    [] T.kind = "Float64" -> EncodeFloat(ParseFloat(val))
    [] T.kind = "Int" -> EncodeInt(Atoi(val))
    [] OTHER -> [err |-> "none", json |-> MarshalString(val).json]

\* lines 131-138: the encoded text is decoded into the destination
DecodeInto(e, T, pre) ==
  IF e.err # "none" THEN [err |-> e.err, val |-> pre]
  ELSE Unmarshal(e.json, T, pre)

convertToType(T, pre, val) == DecodeInto(EncodeForTarget(T, val), T, pre)

(***************************************************************************)
(* package fmt: Sprintf("%v", v) of a value decoded from a JSON body       *)
(***************************************************************************)
RECURSIVE IntDigits(_)
IntDigits(n) ==
  IF n < 10 THEN <<DigitChar(n)>>
  ELSE IntDigits(n \div 10) \o <<DigitChar(n % 10)>>

Zeros(n) == [i \in 1..n |-> "0"]

\* the exponent from which %v leaves the positional form
GExpThreshold == 6

\* %v of a float64 is %g with the shortest precision: positional digits for a
\* decimal exponent in -4..20 below GExpThreshold, d.ddde+XX otherwise
FormatFloatG(f) ==
  LET ds == IntDigits(f.mant)
      nd == Len(ds)
      dp == nd + f.exp
      x == dp - 1
      sign == IF f.neg THEN <<"-">> ELSE <<>>
      ax == IF x < 0 THEN 0 - x ELSE x
      expo == <<"e", IF x < 0 THEN "-" ELSE "+">>
              \o (IF ax < 10 THEN <<"0">> ELSE <<>>) \o IntDigits(ax)
      intPart == IF dp <= 0 THEN <<"0">>
                 ELSE IF dp >= nd THEN ds \o Zeros(dp - nd)
                 ELSE SubSeq(ds, 1, dp)
      prec == IF nd - dp > 0 THEN nd - dp ELSE 0
      frac == [i \in 1..prec |->
                 IF dp + i >= 1 /\ dp + i <= nd THEN ds[dp + i] ELSE "0"]
  IN IF f.cls = "nan" THEN <<"N", "a", "N">>
     ELSE IF f.cls = "inf" THEN <<IF f.neg THEN "-" ELSE "+", "I", "n", "f">>
     ELSE IF f.mant = 0 THEN <<"0">>
     ELSE IF x < -4 \/ x >= GExpThreshold
     THEN sign \o <<ds[1]>>
          \o (IF nd > 1 THEN <<".">> \o SubSeq(ds, 2, nd) ELSE <<>>) \o expo
     ELSE sign \o intPart \o (IF prec > 0 THEN <<".">> \o frac ELSE <<>>)

\* values of a decoded map[string]any: a string, a float64, a bool or nil
JString(s) == [t |-> "string", s |-> s, f |-> FloatZero, b |-> FALSE]
JNumber(n) ==
  [t |-> "number", s |-> <<>>,
   f |-> NormFloat(n < 0, IF n < 0 THEN 0 - n ELSE n, 0), b |-> FALSE]
JBool(b) == [t |-> "bool", s |-> <<>>, f |-> FloatZero, b |-> b]
JNull == [t |-> "null", s |-> <<>>, f |-> FloatZero, b |-> FALSE]

\* fmt.Sprintf("%v", bodyVal)
SprintfV(v) ==
  CASE v.t = "string" -> v.s
    [] v.t = "number" -> FormatFloatG(v.f)
    [] v.t = "bool" -> IF v.b THEN <<"t", "r", "u", "e">>
                       ELSE <<"f", "a", "l", "s", "e">>
    [] OTHER -> <<"<", "n", "i", "l", ">">>

(***************************************************************************)
(* The request (echo.Context).                                             *)
(*   path   : the bound path parameters, a sequence of [name, value]       *)
(*   query  : URL.Query(), key -> sequence of values                       *)
(*   header : http.Header, canonical key -> sequence of values             *)
(*   body   : the body stream: [cls, m], cls one of                        *)
(*     "nil"       Request.Body is nil                                     *)
(*     "empty"     no bytes left (never any, or already consumed)          *)
(*     "space"     white space only                                        *)
(*     "malformed" the first JSON value is cut short or not JSON           *)
(*     "object"    a JSON object, m its members                            *)
(*     "objectThenGarbage"  a JSON object followed by bytes that are not   *)
(*                 JSON                                                    *)
(*     "null"      the JSON null                                           *)
(*     "other"     a JSON array, string, number or boolean                 *)
(* Bodies are shorter than the decoder's read buffer, so one Decode takes  *)
(* every byte off the stream.                                              *)
(***************************************************************************)
EmptyMap == [k \in {} |-> JNull]

Lookup(m, key) == IF key \in DOMAIN m THEN m[key] ELSE <<>>

UpperChar(c) ==
  IF \E u \in DOMAIN UpperToLower : UpperToLower[u] = c
  THEN CHOOSE u \in DOMAIN UpperToLower : UpperToLower[u] = c
  ELSE c

\* textproto.CanonicalMIMEHeaderKey for keys made of letters, digits and '-'
CanonicalMIMEHeaderKey(key) ==
  [i \in 1..Len(key) |->
     IF i = 1 \/ key[i - 1] = "-" THEN UpperChar(key[i]) ELSE LowerChar(key[i])]

\* http.Header.Get
HeaderGet(ctx, key) ==
  LET vals == Lookup(ctx.header, CanonicalMIMEHeaderKey(key))
  IN IF Len(vals) = 0 THEN <<>> ELSE vals[1]

\* echo.Context.Param: the value of the first parameter of that name, or ""
Param(ctx, name) ==
  LET hits == {i \in 1..Len(ctx.path) : ctx.path[i].name = name}
  IN IF hits = {} THEN <<>> ELSE ctx.path[Min(hits)].value

\* json.NewDecoder(Body).Decode(&v) for v a map: the error and the members
ErrEOF == "EOF"

DecoderDecode(body) ==
  CASE body.cls \in {"empty", "space"} -> [err |-> ErrEOF, m |-> EmptyMap]
    [] body.cls = "malformed" -> [err |-> ErrJSONSyntax, m |-> EmptyMap]
    [] body.cls \in {"object", "objectThenGarbage"} -> [err |-> "none", m |-> body.m]
    [] body.cls = "null" -> [err |-> "none", m |-> EmptyMap]
    [] OTHER -> [err |-> ErrUnmarshalType, m |-> EmptyMap]

\* the stream after a Decode
Consume(body) ==
  IF body.cls = "nil" THEN body ELSE [cls |-> "empty", m |-> EmptyMap]

(***************************************************************************)
(* Errors: kind is the message (or "nil"), name the field or key the       *)
(* message contains, cause the error it wraps with %w ("none" if none).    *)
(***************************************************************************)
NoName == <<>>
NoErr == [kind |-> "nil", name |-> NoName, cause |-> "none"]
Err(kind, name, cause) == [kind |-> kind, name |-> name, cause |-> cause]

ErrDecodeBody == "failed to decode body"
ErrInvalidTag == "invalid in tag format for field"
ErrUnsupportedSource == "unsupported source"
ErrRequired == "field is required but missing"
ErrSetField == "failed to set field"
ErrKeyNotFound == "key not found"

(***************************************************************************)
(* Struct Binder: FillStruct (request.go:18-92).  A struct type is a       *)
(* sequence of fields [name, type, tagged, tag, exported].                 *)
(***************************************************************************)
PathWord == <<"p", "a", "t", "h">>
QueryWord == <<"q", "u", "e", "r", "y">>
BodyWord == <<"b", "o", "d", "y">>
HeaderWord == <<"h", "e", "a", "d", "e", "r">>
RequiredWord == <<"r", "e", "q", "u", "i", "r", "e", "d">>

\* lines 43-55: "source=key;required"
ParseTag(inTag) ==
  LET parts == Split(inTag, ";")
      sourceKey == SplitN2(parts[1], "=")
  IN [ok |-> Len(sourceKey) = 2,
      source |-> sourceKey[1],
      key |-> IF Len(sourceKey) = 2 THEN sourceKey[2] ELSE <<>>,
      required |-> \E i \in 2..Len(parts) : ToLower(parts[i]) = RequiredWord]

\* lines 62-69
ResolveQuery(vals) ==
  IF Len(vals) = 0 THEN <<>>
  ELSE IF Len(vals) = 1 THEN vals[1]
  ELSE Join(vals, ",")

\* lines 58-78: the raw value of a field, or the source is not supported
Resolve(ctx, body, source, key) ==
  CASE source = PathWord -> [ok |-> TRUE, val |-> Param(ctx, key)]
    [] source = QueryWord ->
         [ok |-> TRUE, val |-> ResolveQuery(Lookup(ctx.query, key))]
    [] source = BodyWord ->
         [ok |-> TRUE,
          val |-> IF key \in DOMAIN body THEN SprintfV(body[key]) ELSE <<>>]
    [] source = HeaderWord -> [ok |-> TRUE, val |-> HeaderGet(ctx, key)]
    [] OTHER -> [ok |-> FALSE, val |-> <<>>]

\* a check that never reports a missing value
MissingRequiredNever(required, val) == FALSE

\* lines 80-88 with the value required: error when it is empty
MissingRequired(required, val) == required /\ val = <<>>

\* lines 84-88: the outcome c of setFieldValue on field f
BindSet(f, c) ==
  IF c.err = Panic THEN [err |-> Err(Panic, NoName, "none"), val |-> c.val]
  ELSE IF c.err # "none" THEN [err |-> Err(ErrSetField, f.name, c.err), val |-> c.val]
  ELSE [err |-> NoErr, val |-> c.val]

\* lines 76-88: r is what the source of the tag t gave for field f
BindResolved(f, cur, t, r) ==
  IF ~r.ok THEN [err |-> Err(ErrUnsupportedSource, NoName, "none"), val |-> cur]
  ELSE IF MissingRequired(t.required, r.val)
  THEN [err |-> Err(ErrRequired, f.name, "none"), val |-> cur]
  ELSE IF r.val = <<>> THEN [err |-> NoErr, val |-> cur]
  ELSE BindSet(f, setFieldValue(f.type, cur, r.val))

\* lines 43-78: t is the parsed tag of field f
BindTagged(ctx, body, f, cur, t) ==
  IF ~t.ok THEN [err |-> Err(ErrInvalidTag, f.name, "none"), val |-> cur]
  ELSE BindResolved(f, cur, t, Resolve(ctx, body, t.source, t.key))

\* one iteration of the loop of lines 30-89 on field f holding cur:
\* the error that ends the call (NoErr to go on) and the field afterwards
BindField(ctx, body, f, cur) ==
  IF ~f.exported \/ ~f.tagged THEN [err |-> NoErr, val |-> cur]
  ELSE BindTagged(ctx, body, f, cur, ParseTag(f.tag))

\* the loop from field i on; dest holds the fields as bound so far
RECURSIVE BindFrom(_, _, _, _, _)

\* field i gave r: return its error, or go on with the next field
BindNext(ctx, body, st, dest, i, r) ==
  IF r.err # NoErr THEN [err |-> r.err, post |-> [dest EXCEPT ![i] = r.val]]
  ELSE BindFrom(ctx, body, st, [dest EXCEPT ![i] = r.val], i + 1)

BindFrom(ctx, body, st, dest, i) ==
  IF i > Len(st) THEN [err |-> NoErr, post |-> dest]
  ELSE BindNext(ctx, body, st, dest, i, BindField(ctx, body, st[i], dest[i]))

\* a loop that goes on to the next field after an error and reports the last
RECURSIVE BindAll(_, _, _, _, _, _)

BindAllNext(ctx, body, st, dest, i, err, r) ==
  BindAll(ctx, body, st, [dest EXCEPT ![i] = r.val], i + 1,
          IF r.err # NoErr THEN r.err ELSE err)

BindAll(ctx, body, st, dest, i, err) ==
  IF i > Len(st) THEN [err |-> err, post |-> dest]
  ELSE BindAllNext(ctx, body, st, dest, i, err,
                   BindField(ctx, body, st[i], dest[i]))

BindNoStop(ctx, body, st, dest) == BindAll(ctx, body, st, dest, 1, NoErr)

\* lines 27-91
BindFields(ctx, body, st, dest) == BindFrom(ctx, body, st, dest, 1)

\* lines 20-25: the decoded body, or the error that ends the call
DecodeBody(body) ==
  IF body.cls = "nil" THEN [err |-> "none", m |-> EmptyMap]
  ELSE
    LET d == DecoderDecode(body)
    IN IF d.err # "none" /\ d.err # ErrEOF THEN [err |-> d.err, m |-> EmptyMap]
       ELSE [err |-> "none", m |-> d.m]

FillStruct(ctx, st, result) ==
  LET b == DecodeBody(ctx.body)
  IN IF b.err # "none"
     THEN [err |-> Err(ErrDecodeBody, NoName, b.err), post |-> result]
     ELSE BindFields(ctx, b.m, st, result)

(***************************************************************************)
(* Scalar Accessor (part_000:34-83)                                        *)
(***************************************************************************)
\* the result of a coercion as the accessor returns it
Returned(c) ==
  [err |-> IF c.err = "none" THEN NoErr ELSE Err(c.err, NoName, "none"),
   post |-> c.val]

\* an absent value that is an error whatever optional says
AbsentAlwaysError(key, optional) == Err(ErrKeyNotFound, key, "none")

\* lines 63-66 and 77-80: the result for an absent value
Absent(key, optional) ==
  IF optional THEN NoErr ELSE Err(ErrKeyNotFound, key, "none")

\* GetPathParams, lines 45-55
GetPathParams(ctx, key, T, returnValue) ==
  LET hits == {i \in 1..Len(ctx.path) : ctx.path[i].name = key}
  IN IF hits = {}
     THEN [err |-> Err(ErrKeyNotFound, NoName, "none"), post |-> returnValue]
     ELSE Returned(convertToType(T, returnValue, ctx.path[Min(hits)].value))

\* GetQueryParam, lines 60-69
GetQueryParam(ctx, key, T, returnValue, optional) ==
  LET vals == Lookup(ctx.query, key)
  IN IF Len(vals) = 0
     THEN [err |-> Absent(key, optional), post |-> returnValue]
     ELSE Returned(convertToType(T, returnValue, Join(vals, ",")))

\* GetHeaderParams, lines 74-83
GetHeaderParams(ctx, key, T, returnValue, optional) ==
  LET vals == HeaderGet(ctx, key)
  IN IF vals = <<>>
     THEN [err |-> Absent(key, optional), post |-> returnValue]
     ELSE Returned(convertToType(T, returnValue, vals))

\* GetBody, lines 34-40, into a map[string]any: members of the body are
\* added to the map, null clears it; reading a nil Body does not return
GetBody(ctx, returnValue) ==
  LET d == DecoderDecode(ctx.body)
  IN IF ctx.body.cls = "nil"
     THEN [err |-> Err(Panic, NoName, "none"), post |-> returnValue]
     ELSE IF d.err # "none"
     THEN [err |-> Err(d.err, NoName, "none"), post |-> returnValue]
     ELSE IF ctx.body.cls = "null" THEN [err |-> NoErr, post |-> EmptyMap]
     ELSE [err |-> NoErr,
           post |-> [k \in DOMAIN returnValue \cup DOMAIN d.m |->
                       IF k \in DOMAIN d.m THEN d.m[k] ELSE returnValue[k]]]

(***************************************************************************)
(* Inputs                                                                  *)
(***************************************************************************)
\* at most MaxVals occurrences of one query key, at most MaxFields fields in
\* a struct built from FieldChoices
MaxVals == 2
MaxFields == 2

K1 == <<"i", "d">>
K2 == <<"n">>
Keys == {K1, K2}

sA == <<"a">>
sB == <<"b">>
sFF == <<InvalidByte>>
sTrue == <<"t", "r", "u", "e">>
sFalse == <<"f", "a", "l", "s", "e">>
s5 == <<"5">>
s300 == <<"3", "0", "0">>

BoolStrings ==
  ParseBoolTrue \cup ParseBoolFalse
    \cup {<<"t", "R", "U", "E">>, <<"f", "a", "l", "s", "E">>, <<"y", "e", "s">>,
          <<"t", "r", "u", "e", ",", "0">>, <<"t", "r", "u", "e", ",", "n", "o">>}

IntStrings ==
  {s5, <<"-", "5">>, <<"+", "5">>, <<"1", "2", "7">>, <<"1", "2", "8">>, s300,
   <<"-", "1", "2", "9">>, <<"3", "2", "7", "6", "8">>, <<"5", "x">>,
   <<"1">> \o MaxUint64Digits, <<"1", ",", "2">>, <<"1", ",", "x">>, <<"x", ",", "1">>}

FloatStrings ==
  {<<"1", ".", "5">>, <<"1", "e", "+", "0", "6">>, <<"i", "n", "f">>,
   <<"N", "a", "N">>, <<"1", "e", "4", "0", "0">>}

JSONStrings ==
  {<<"{", "}">>, <<"{", Quote, "a", Quote, ":", Quote, "b", Quote, "}">>,
   <<"n", "u", "l", "l">>, <<"{">>}

TextStrings == {<<>>, sA, sFF, <<"a", ",", "b">>, <<",">>, <<"a", ",">>}

RawStrings ==
  TextStrings \cup BoolStrings \cup IntStrings \cup FloatStrings \cup JSONStrings

\* values without a comma, and the lists of them a query key can carry
CommaFree == {<<>>, sA, sFF}
CommaFreeLists == UNION {[1..n -> CommaFree] : n \in 1..MaxVals}

QueryLists ==
  {<<v>> : v \in RawStrings}
    \cup CommaFreeLists
    \cup {<<Join(l, ",")>> : l \in CommaFreeLists}
    \cup {<<s5, s300>>, <<s5, <<"x">>>>, <<sTrue, sFalse>>}

\* values a path parameter or a header carries
SingleValues ==
  {sA, sFF, sTrue, <<"t", "R", "U", "E">>, s5, s300, <<"1", ",", "2">>,
   <<"1", ",", "x">>, <<"1", ".", "5">>, <<"{", "}">>, <<"n", "u", "l", "l">>}

NoQuery == [k \in Keys |-> <<>>]
NoHeader == [k \in {CanonicalMIMEHeaderKey(k) : k \in Keys} |-> <<>>]
NilBody == [cls |-> "nil", m |-> EmptyMap]
EmptyBody == [cls |-> "empty", m |-> EmptyMap]

Members(v) == [k \in {K1} |-> v]

BodyValues ==
  {JString(sA), JString(<<>>), JString(s5), JNumber(5), JNumber(300),
   JNumber(123456), JNumber(1000000), JNumber(1234567), JNumber(0 - 5),
   JBool(TRUE), JBool(FALSE), JNull}

Bodies ==
  {EmptyBody,
   [cls |-> "space", m |-> EmptyMap], [cls |-> "malformed", m |-> EmptyMap],
   [cls |-> "null", m |-> EmptyMap], [cls |-> "other", m |-> EmptyMap],
   [cls |-> "object", m |-> EmptyMap],
   [cls |-> "objectThenGarbage", m |-> Members(JString(sA))]}
    \cup {[cls |-> "object", m |-> Members(v)] : v \in BodyValues}

Request(path, query, header, body) ==
  [path |-> path, query |-> query, header |-> header, body |-> body]

PathOf(k, v) == <<[name |-> k, value |-> v]>>

Requests ==
  {Request(<<>>, [NoQuery EXCEPT ![K1] = l], NoHeader, EmptyBody) :
     l \in QueryLists}
    \cup {Request(PathOf(K1, v), NoQuery, NoHeader, EmptyBody) : v \in SingleValues}
    \cup {Request(PathOf(K1, <<>>), NoQuery, NoHeader, EmptyBody),
          Request(PathOf(K2, sA) \o PathOf(K1, s5) \o PathOf(K1, sA),
                  NoQuery, NoHeader, EmptyBody)}
    \cup {Request(<<>>, NoQuery,
                  [NoHeader EXCEPT ![CanonicalMIMEHeaderKey(K1)] = <<v>>], EmptyBody) :
            v \in SingleValues \cup {<<>>}}
    \cup {Request(<<>>, NoQuery,
                  [NoHeader EXCEPT ![CanonicalMIMEHeaderKey(K1)] = <<sA, s5>>],
                  EmptyBody)}
    \cup {Request(<<>>, NoQuery, NoHeader, b) : b \in Bodies \cup {NilBody}}
    \cup {Request(p, [NoQuery EXCEPT ![K1] = l], NoHeader, b) :
            p \in {<<>>, PathOf(K2, sA)},
            l \in {<<>>, <<s5>>, <<s300>>, <<<<"x">>>>},
            b \in {EmptyBody, [cls |-> "malformed", m |-> EmptyMap]}}

\* destination types
AccessorTypes ==
  {TString, TBool, TInt, TInt8, TFloat64, TMap, TSlice(TString), TSlice(TInt)}

FieldTypes ==
  AccessorTypes
    \cup {TInt16, TInt32, TInt64, TUint8, TStruct, TSlice(TBool),
          TSlice(TSlice(TString))}

\* a value other than the zero value; a slice longer than any list bound here
Sample(T) ==
  CASE T.kind = "String" -> <<"p">>
    [] T.kind = "Bool" -> TRUE
    [] T.kind \in IntKinds \cup UintKinds -> 7
    [] T.kind = "Float64" -> NormFloat(FALSE, 25, -1)
    [] T.kind = "Slice" -> [i \in 1..(MaxVals + 2) |-> Zero(T.elem)]
    [] T.kind = "Map" -> {<<sA, sA>>}
    [] OTHER -> "zero"

PreValues(T) == IF T.kind = "Slice" THEN {Zero(T), Sample(T)} ELSE {Sample(T)}

FieldName(i) == <<"F", DigitChar(i)>>

Tag(source, key, required) ==
  source \o <<"=">> \o key \o (IF required THEN <<";">> \o RequiredWord ELSE <<>>)

Field(T, tag) == [type |-> T, tagged |-> TRUE, tag |-> tag, exported |-> TRUE]

\* a struct type from field declarations, named F1, F2, ... in order
Struct(decls) ==
  [i \in 1..Len(decls) |->
     [name |-> FieldName(i), type |-> decls[i].type, tagged |-> decls[i].tagged,
      tag |-> decls[i].tag, exported |-> decls[i].exported]]

SingleFieldDecls ==
  {Field(T, Tag(QueryWord, K1, r)) : T \in FieldTypes, r \in BOOLEAN}
    \cup {Field(T, Tag(w, K1, r)) :
            T \in {TString, TInt8}, w \in {PathWord, HeaderWord}, r \in BOOLEAN}
    \cup {Field(T, Tag(BodyWord, K1, r)) :
            T \in {TString, TInt, TInt8, TBool}, r \in BOOLEAN}
    \cup {Field(TString, K1),
          Field(TString, Tag(<<"f", "o", "r", "m">>, K1, TRUE)),
          Field(TString, QueryWord \o <<"=">> \o K1 \o <<";", "R", "E", "Q", "U", "I", "R", "E", "D">>),
          [type |-> TString, tagged |-> FALSE, tag |-> <<>>, exported |-> TRUE],
          [type |-> TString, tagged |-> TRUE, tag |-> Tag(QueryWord, K1, TRUE),
           exported |-> FALSE]}

FieldChoices ==
  {Field(TInt8, Tag(QueryWord, K1, FALSE)),
   Field(TString, Tag(PathWord, K2, TRUE)),
   Field(TSlice(TInt), Tag(QueryWord, K1, TRUE)),
   Field(TString, K1)}

StructTypes ==
  {Struct(<<d>>) : d \in SingleFieldDecls}
    \cup {Struct(ds) : ds \in UNION {[1..n -> FieldChoices] : n \in 2..MaxFields}}

PreStructs(st) == {[i \in 1..Len(st) |-> Sample(st[i].type)]}

BodyDests == {EmptyMap, Members(JString(sB))}

(***************************************************************************)
(* The state.                                                              *)
(*   req     : the request                                                 *)
(*   handler : the destination the route's handler declares, fixed when    *)
(*             the program is compiled: a struct type for FillStruct, or   *)
(*             a type T and a key for the accessors instantiated at T      *)
(*   last    : the last call made on the request, with its destination     *)
(*             before (pre) and after (post) and the error returned        *)
(***************************************************************************)
VARIABLES req, handler, last

vars == <<req, handler, last>>

StructHandlers ==
  {[kind |-> "struct", type |-> st, key |-> NoName] : st \in StructTypes}

ScalarHandlers ==
  {[kind |-> "scalar", type |-> T, key |-> k] : T \in AccessorTypes, k \in Keys}

NoCall ==
  [op |-> "none", key |-> NoName, type |-> <<>>, optional |-> FALSE,
   pre |-> <<>>, post |-> <<>>, err |-> NoErr, body |-> NilBody]

Init ==
  /\ req \in Requests
  /\ \/ handler \in StructHandlers
     \/ handler \in ScalarHandlers
  /\ last = NoCall

Call(op, optional, pre, r) ==
  [op |-> op, key |-> handler.key, type |-> handler.type, optional |-> optional,
   pre |-> pre, post |-> r.post, err |-> r.err, body |-> req.body]

CallFillStruct ==
  /\ handler.kind = "struct"
  /\ \E pre \in PreStructs(handler.type) :
       last' = Call("FillStruct", FALSE, pre, FillStruct(req, handler.type, pre))
  /\ req' = [req EXCEPT !.body = Consume(req.body)]
  /\ UNCHANGED handler

CallGetBody ==
  /\ \E pre \in BodyDests :
       last' = [Call("GetBody", FALSE, pre, GetBody(req, pre)) EXCEPT
                  !.key = NoName, !.type = TMap]
  /\ req' = [req EXCEPT !.body = Consume(req.body)]
  /\ UNCHANGED handler

CallGetPathParams ==
  /\ handler.kind = "scalar"
  /\ \E pre \in PreValues(handler.type) :
       last' = Call("GetPathParams", FALSE, pre,
                    GetPathParams(req, handler.key, handler.type, pre))
  /\ UNCHANGED <<req, handler>>

CallGetQueryParam ==
  /\ handler.kind = "scalar"
  /\ \E optional \in BOOLEAN : \E pre \in PreValues(handler.type) :
       last' = Call("GetQueryParam", optional, pre,
                    GetQueryParam(req, handler.key, handler.type, pre, optional))
  /\ UNCHANGED <<req, handler>>

CallGetHeaderParams ==
  /\ handler.kind = "scalar"
  /\ \E optional \in BOOLEAN : \E pre \in PreValues(handler.type) :
       last' = Call("GetHeaderParams", optional, pre,
                    GetHeaderParams(req, handler.key, handler.type, pre, optional))
  /\ UNCHANGED <<req, handler>>

Next ==
  \/ CallFillStruct
  \/ CallGetBody
  \/ CallGetPathParams
  \/ CallGetQueryParam
  \/ CallGetHeaderParams

Spec == Init /\ [][Next]_vars

(***************************************************************************)
(* Properties                                                              *)
(***************************************************************************)
Called(op) == last.op = op

\* the last call bound one field of type T from origin source under key:
\* FillStruct on a struct of that single field
BoundSingle(source, key, T) ==
  /\ Called("FillStruct")
  /\ Len(last.type) = 1
  /\ last.type[1].exported
  /\ last.type[1].tagged
  /\ last.type[1].tag \in {Tag(source, key, r) : r \in BOOLEAN}
  /\ last.type[1].type = T

NoBodyBytes == last.body.cls \in {"nil", "empty"}

\* the last call read the values of query key `key` into a []string, by
\* GetQueryParam or by a FillStruct field, and res is what the []string holds
QueryStringsBy(op, key) ==
  /\ Called(op)
  /\ NoBodyBytes
  /\ \/ op = "GetQueryParam" /\ last.key = key /\ last.type = TSlice(TString)
     \/ op = "FillStruct" /\ BoundSingle(QueryWord, key, TSlice(TString))

StringsResult == IF Called("FillStruct") THEN last.post[1] ELSE last.post

\* the request carries the comma-free values l under key, either as Len(l)
\* occurrences or as one comma-joined occurrence
Carries(key, l) ==
  \/ req.query[key] = l
  \/ req.query[key] = <<Join(l, ",")>>

\* C1 as stated: comma-free values v1..vn given as one comma-joined value or
\* as n occurrences of the key coerce to the sequence [v1,...,vn], through
\* GetQueryParam and through a FillStruct field tagged query=key.
C1_AsStated ==
  \A op \in {"GetQueryParam", "FillStruct"}, key \in Keys, l \in CommaFreeLists :
    QueryStringsBy(op, key) /\ Carries(key, l)
      => last.err = NoErr /\ StringsResult = l

(***************************************************************************)
(* The last call seen from the request                                     *)
(***************************************************************************)
Origins == {PathWord, QueryWord, HeaderWord, BodyWord}

AccessorOps == {"GetPathParams", "GetQueryParam", "GetHeaderParams"}

\* the request as the last call received it (a call reads the body away)
CallCtx == [req EXCEPT !.body = last.body]

\* the body the last call received holds nothing, or one object
BodyDecodes ==
  last.body.cls \in {"nil", "empty", "space", "null", "object", "objectThenGarbage"}

BodyMap ==
  IF last.body.cls \in {"object", "objectThenGarbage"} THEN last.body.m
  ELSE EmptyMap

\* the origin `source` of the request has no value, or an empty one, for key
RawEmpty(source, key) ==
  CASE source = PathWord ->
         \A i \in 1..Len(req.path) :
           (req.path[i].name = key /\ \A j \in 1..(i - 1) : req.path[j].name # key)
             => req.path[i].value = <<>>
    [] source = QueryWord -> Lookup(req.query, key) \in {<<>>, <<<<>>>>}
    [] source = HeaderWord ->
         \/ Lookup(req.header, CanonicalMIMEHeaderKey(key)) = <<>>
         \/ Lookup(req.header, CanonicalMIMEHeaderKey(key))[1] = <<>>
    [] source = BodyWord -> key \notin DOMAIN BodyMap \/ BodyMap[key] = JString(<<>>)

\* field i of the struct the last call filled is declared `in:"source=key"`,
\* with ";required" when required
FieldDeclared(i, source, key, required) ==
  /\ last.type[i].exported
  /\ last.type[i].tagged
  /\ last.type[i].tag = Tag(source, key, required)

\* the last call got as far as field i: the body decoded and the fields
\* before i were bound without an error
ReachedField(i) ==
  /\ BodyDecodes
  /\ BindFields(CallCtx, BodyMap, SubSeq(last.type, 1, i - 1),
                SubSeq(last.pre, 1, i - 1)).err = NoErr

\* C2: in FillStruct, for a tagged field of any origin whose resolved raw
\* value is empty: when the field is required the call fails with the
\* missing-field error naming the field and the field is not written; when it
\* is not required the call does not fail on that field and the field keeps
\* its pre-call value.
C2_RequiredOrKept ==
  Called("FillStruct") =>
    \A i \in 1..Len(last.type), source \in Origins, key \in Keys, required \in BOOLEAN :
      FieldDeclared(i, source, key, required) /\ ReachedField(i) /\ RawEmpty(source, key)
        => /\ last.post[i] = last.pre[i]
           /\ required => last.err = Err(ErrRequired, last.type[i].name, "none")
           /\ ~required => last.err.name # last.type[i].name

\* a second field, required and read from a path parameter that is not
\* bound, ends the call after the first field was bound from the query
C2_Witness ==
  /\ Called("FillStruct")
  /\ Len(last.type) = 2
  /\ FieldDeclared(2, PathWord, K2, TRUE)
  /\ RawEmpty(PathWord, K2)
  /\ last.err = Err(ErrRequired, FieldName(2), "none")
  /\ last.post[1] # last.pre[1]
  /\ last.post[2] = last.pre[2]

C4_AsStated ==
  Called("FillStruct") =>
    /\ last.body.cls \in {"space", "malformed", "other", "objectThenGarbage"}
         => last.err.kind = ErrDecodeBody /\ last.post = last.pre
    /\ last.body.cls \in {"nil", "empty"}
         => /\ last.err.kind # ErrDecodeBody
            /\ last.err = BindFields(CallCtx, EmptyMap, last.type, last.pre).err
            /\ last.post = BindFields(CallCtx, EmptyMap, last.type, last.pre).post

(***************************************************************************)
(* The coercion the last call made: a Scalar Accessor that found its       *)
(* value, or FillStruct on a struct of one tagged field whose raw value    *)
(* is not empty.                                                           *)
(***************************************************************************)
AccessorFound ==
  CASE last.op = "GetQueryParam" -> Lookup(req.query, last.key) # <<>>
    [] last.op = "GetHeaderParams" -> HeaderGet(req, last.key) # <<>>
    [] last.op = "GetPathParams" ->
         \E i \in 1..Len(req.path) : req.path[i].name = last.key
    [] OTHER -> FALSE

AccessorRaw ==
  CASE last.op = "GetQueryParam" -> Join(Lookup(req.query, last.key), ",")
    [] last.op = "GetHeaderParams" -> HeaderGet(req, last.key)
    [] last.op = "GetPathParams" -> Param(req, last.key)
    [] OTHER -> <<>>

SingleField ==
  /\ Called("FillStruct")
  /\ Len(last.type) = 1
  /\ last.type[1].exported
  /\ last.type[1].tagged
  /\ BodyDecodes
  /\ ParseTag(last.type[1].tag).ok
  /\ ParseTag(last.type[1].tag).source \in Origins

SingleRaw ==
  Resolve(CallCtx, BodyMap, ParseTag(last.type[1].tag).source,
          ParseTag(last.type[1].tag).key).val

Coerces(T) ==
  \/ last.op \in AccessorOps /\ last.type = T /\ AccessorFound
  \/ SingleField /\ last.type[1].type = T /\ SingleRaw # <<>>

Raw == IF Called("FillStruct") THEN SingleRaw ELSE AccessorRaw
Dest == IF Called("FillStruct") THEN last.post[1] ELSE last.post
DestBefore == IF Called("FillStruct") THEN last.pre[1] ELSE last.pre
Succeeded == last.err = NoErr
\* the error of the conversion: FillStruct wraps it, an accessor returns it
Cause == IF Called("FillStruct") THEN last.err.cause ELSE last.err.kind

TrueWords == {<<"t", "r", "u", "e">>, <<"t">>, <<"1">>}
FalseWords == {<<"f", "a", "l", "s", "e">>, <<"f">>, <<"0">>}

TrueLiterals ==
  {<<"1">>, <<"t">>, <<"T">>, <<"t", "r", "u", "e">>, <<"T", "R", "U", "E">>,
   <<"T", "r", "u", "e">>}

FalseLiterals ==
  {<<"0">>, <<"f">>, <<"F">>, <<"f", "a", "l", "s", "e">>,
   <<"F", "A", "L", "S", "E">>, <<"F", "a", "l", "s", "e">>}

\* C5 as stated: a boolean coercion, in both layers, accepts true, false, t,
\* f, 1 and 0 in any mix of upper and lower case, and rejects every other raw
\* value with a conversion error.
C5_AsStated ==
  Coerces(TBool) =>
    IF ToLower(Raw) \in TrueWords THEN Succeeded /\ Dest = TRUE
    ELSE IF ToLower(Raw) \in FalseWords THEN Succeeded /\ Dest = FALSE
    ELSE ~Succeeded /\ Cause = ErrSyntax

\* C5 amended: a boolean coercion, in both layers, accepts exactly 1, t, T,
\* true, TRUE, True (true) and 0, f, F, false, FALSE, False (false), and
\* rejects every other raw value, other mixes of case included, with a
\* conversion error that leaves the destination as it was.
C5_Amended ==
  Coerces(TBool) =>
    IF Raw \in TrueLiterals THEN Succeeded /\ Dest = TRUE
    ELSE IF Raw \in FalseLiterals THEN Succeeded /\ Dest = FALSE
    ELSE ~Succeeded /\ Cause = ErrSyntax /\ Dest = DestBefore

\* FillStruct binds FALSE to a field that held true from the literal "False"
C5_Witness ==
  /\ Called("FillStruct")
  /\ Coerces(TBool)
  /\ Raw = <<"F", "a", "l", "s", "e">>
  /\ DestBefore = TRUE
  /\ Dest = FALSE
  /\ Succeeded

\* C6 as stated: coercing a raw value into an integer destination of any
\* width parses it as a base-10 signed integer; a raw value that is not a
\* number, or whose value does not fit the width, fails with a conversion
\* error and the destination is not assigned; on success the destination
\* equals the parsed number.
C6_AsStated ==
  \A kind \in IntKinds :
    Coerces([kind |-> kind]) =>
      IF ParseInt(Raw).ok /\ ~OverflowInt(kind, ParseInt(Raw).val)
      THEN Succeeded /\ Dest = ParseInt(Raw).val
      ELSE ~Succeeded /\ Dest = DestBefore

\* what binding field i alone gives, from its pre-call value
FieldOutcome(i) == BindField(CallCtx, BodyMap, last.type[i], last.pre[i])

Failing == {i \in 1..Len(last.type) : FieldOutcome(i).err # NoErr}

C8_AsStated ==
  \A T \in FieldTypes :
    Coerces(T) /\ ~Succeeded => Dest = DestBefore

\* the origin a Scalar Accessor reads, as the word of a FillStruct tag
OriginOf(op) ==
  CASE op = "GetPathParams" -> PathWord
    [] op = "GetQueryParam" -> QueryWord
    [] OTHER -> HeaderWord

\* FillStruct on the last call's request and destination, as one field
\* tagged "origin=key;required"
AsSingleField ==
  FillStruct(CallCtx,
             Struct(<<Field(last.type, Tag(OriginOf(last.op), last.key, TRUE))>>),
             <<last.pre>>)

\* C9 as stated: on a request with an empty body, a Scalar Accessor with
\* optional=false and FillStruct on a struct whose single field of the same
\* kind is tagged "origin=key;required" either both fail or both succeed with
\* equal values, for query, header and path, an empty value under the key
\* included.
C9_AsStated ==
  /\ last.op \in AccessorOps
  /\ ~last.optional
  /\ NoBodyBytes
  => /\ Succeeded <=> AsSingleField.err = NoErr
     /\ Succeeded => last.post = AsSingleField.post[1]

\* the coercion of piece p to the element type E in the layer of the last call
Element(E, p) ==
  IF Called("FillStruct") THEN setFieldValue(E, Zero(E), p)
  ELSE convertToType(E, Zero(E), p)

ElementTypes == {TString, TBool, TInt, TSlice(TString)}

\* C10 as stated: coercing a raw value into a sequence of T, in both layers,
\* splits it on ',' and yields one element per piece, in order, the i-th the
\* coercion of the i-th piece to T, for T string, boolean, integer or a
\* nested sequence; it fails if and only if some piece fails to coerce.
C10_AsStated ==
  \A E \in ElementTypes :
    Coerces(TSlice(E)) =>
      LET pieces == Split(Raw, ",")
      IN /\ Succeeded <=> \A i \in 1..Len(pieces) : Element(E, pieces[i]).err = "none"
         /\ Succeeded => Dest = [i \in 1..Len(pieces) |-> Element(E, pieces[i]).val]

\* C11 as stated: every error FillStruct returns because of a field names
\* that field, whether the cause is a tag without '=', an origin other than
\* path, query, body and header, a missing required value or a conversion
\* failure, and the error of a conversion failure wraps the conversion error.
C11_AsStated ==
  Called("FillStruct") /\ BodyDecodes /\ Failing # {} /\ last.err.kind # Panic =>
    /\ last.err.kind \in {ErrInvalidTag, ErrUnsupportedSource, ErrRequired, ErrSetField}
    /\ last.err.name = last.type[Min(Failing)].name
    /\ last.err.kind = ErrSetField => last.err.cause # "none"

\* the last call filled a struct of one field of type T tagged "body=key",
\* and the body is an object whose member key is the JSON value v
BodyFieldHolds(T, key, v) ==
  /\ SingleField
  /\ \E required \in BOOLEAN : FieldDeclared(1, BodyWord, key, required)
  /\ last.type[1].type = T
  /\ key \in DOMAIN BodyMap
  /\ BodyMap[key] = v

BodyIntegers == {0 - 5, 5, 300, 123456, 1000000, 1234567}

\* C12 as stated: a FillStruct field of origin body is bound from the text
\* of the JSON value under its key: a JSON number n within the range of an
\* integer field binds the field to n without error, a JSON true or false
\* binds a boolean field, and a JSON string binds a string field verbatim
\* (stated here for strings that are not empty).
C12_AsStated ==
  \A key \in Keys :
    /\ \A kind \in IntKinds, n \in BodyIntegers :
         BodyFieldHolds([kind |-> kind], key, JNumber(n)) /\ ~OverflowInt(kind, n)
           => Succeeded /\ Dest = n
    /\ \A b \in BOOLEAN :
         BodyFieldHolds(TBool, key, JBool(b)) => Succeeded /\ Dest = b
    /\ \A str \in {sA, s5} :
         BodyFieldHolds(TString, key, JString(str)) => Succeeded /\ Dest = str

BodyOps == {"FillStruct", "GetBody"}

\* what the call of this step gives on the request as the call before it
\* received it, with the same fresh destination
AsFirstCall ==
  IF last'.op = "FillStruct"
  THEN FillStruct([req EXCEPT !.body = last.body], last'.type, last'.pre)
  ELSE GetBody([req EXCEPT !.body = last.body], last'.pre)

\* C13 as stated: binding is stateless across calls on one request: after
\* FillStruct or GetBody, a second FillStruct or GetBody on the same request
\* with a fresh destination returns the error and leaves the destination
\* contents it would have given as the first call.
C13_AsStated ==
  [][last.op \in BodyOps /\ last'.op \in BodyOps
       => last'.err = AsFirstCall.err /\ last'.post = AsFirstCall.post]_vars

====
